---- MODULE Spec2Model ----
(***************************************************************************)
(* zvm-helper: installation of CoreOS on a z/VM guest.                     *)
(*                                                                         *)
(* The model follows one process run (src/src/main.rs): the command line   *)
(* is parsed into a Config (cmdline.rs), the live images are ensured in    *)
(* the working directory (images.rs) and the guest is prepared, fed and    *)
(* started through its virtual reader (ipl.rs).  Strings are TLA+ strings, *)
(* so that the kernel parameter line is the text the code formats.         *)
(*                                                                         *)
(* Environment assumption: std::env::current_dir() succeeds and yields Cwd *)
(* during the whole run.                                                   *)
(***************************************************************************)
EXTENDS Naturals, Sequences, FiniteSets, TLC

VARIABLES
    args,     \* the command line, as clap hands it to parse_args
    cfg,      \* the Config built by parse_args (NoConfig before)
    pc,       \* the position of the run in main / ipl_zvm_guest / send
    trace,    \* the external effects issued so far, oldest first
    fs,       \* the file system: path -> content of every existing file
    cmdline,  \* send(): the result of parm(cfg) (NoValue before)
    ret       \* the result of the run, or of the function applied

vars == <<args, cfg, pc, trace, fs, cmdline, ret>>

\* ------------------------------------------------------------------------
\* Bounds

\* The largest number of values given to --mp (MultipathDisks.scsi).
MaxIds == 3

\* ------------------------------------------------------------------------
\* Rust's Option and Result, and a panic as the third way out of a call

None == <<>>
Some(x) == <<x>>
IsSome(o) == Len(o) = 1
Unwrap(o) == o[1]

Ok(v) == [tag |-> "Ok", val |-> v]
Err(e) == [tag |-> "Err", err |-> e]
Panic(e) == [tag |-> "Panic", err |-> e]
IsOk(r) == r.tag = "Ok"
IsErr(r) == r.tag = "Err"
IsPanic(r) == r.tag = "Panic"

NoValue == [tag |-> "NoValue"]
NoConfig == [tag |-> "NoConfig"]

\* ------------------------------------------------------------------------
\* Strings

\* str::starts_with
StartsWith(s, p) == Len(s) >= Len(p) /\ SubSeq(s, 1, Len(p)) = p

\* str::find from position i: the first index >= i at which p occurs in s,
\* 0 when there is none.
Find(s, p, i) ==
    LET hits == {j \in i..(Len(s) - Len(p) + 1) : SubSeq(s, j, j + Len(p) - 1) = p}
    IN  IF hits = {} THEN 0 ELSE CHOOSE j \in hits : \A k \in hits : j <= k

\* str::split(sep) for a one-character separator: never empty.
RECURSIVE SplitFrom(_, _, _)
SplitFrom(s, sep, start) ==
    LET k == Find(s, sep, start)
    IN  IF k = 0 THEN <<SubSeq(s, start, Len(s))>>
        ELSE <<SubSeq(s, start, k - 1)>> \o SplitFrom(s, sep, k + 1)

Split(s, sep) == SplitFrom(s, sep, 1)

\* [String]::join(sep)
RECURSIVE Join(_, _)
Join(ss, sep) ==
    IF ss = <<>> THEN ""
    ELSE IF Len(ss) = 1 THEN ss[1]
    ELSE ss[1] \o sep \o Join(Tail(ss), sep)

\* Display for bool
FmtBool(b) == IF b THEN "true" ELSE "false"

\* ------------------------------------------------------------------------
\* reqwest::Url, as far as the code reads it: scheme, host and path.

Url(scheme, host, path) == [scheme |-> scheme, host |-> host, path |-> path]

\* Url::as_str / Display
UrlStr(u) == u.scheme \o "://" \o u.host \o u.path

\* ------------------------------------------------------------------------
\* config.rs: InstallTarget

CcwPrefix == "/dev/disk/by-path/ccw-"

\* DasdDisk::install_target without its ensure!, like FbaDisk's.
DasdInstallTarget_NoEnsure(disk) == Ok(CcwPrefix \o disk.dasd)

DasdInstallTarget(disk) ==
    IF ~StartsWith(disk.dasd, "0.0.")
    THEN Err("Condition failed: dasd.starts_with(0.0.)")
    ELSE Ok(CcwPrefix \o disk.dasd)

FbaInstallTarget(disk) == Ok(CcwPrefix \o disk.fba)

ScsiInstallTarget(disk) == Ok("sda")

\* MultipathDisks::install_target without its ensure!.
\* (MultipathDisks.scsi is the field `ids` here: ScsiDisk.scsi is a string.)
MultipathInstallTarget_NoEnsure(disk) == Ok("/dev/mapper/mpatha")

MultipathInstallTarget(disk) ==
    IF ~(Len(disk.ids) > 1)
    THEN Err("Condition failed: scsi.len() > 1")
    ELSE Ok("/dev/mapper/mpatha")

\* The trait method, dispatched on the DiskConfig variant.
install_target(disk) ==
    CASE disk.kind = "Dasd" -> DasdInstallTarget(disk)
      [] disk.kind = "Fba" -> FbaInstallTarget(disk)
      [] disk.kind = "Scsi" -> ScsiInstallTarget(disk)
      [] disk.kind = "Multipath" -> MultipathInstallTarget(disk)

\* ------------------------------------------------------------------------
\* config.rs: From<&BuildImages> for LiveImages

\* The working directory (std::env::current_dir).
Cwd == "/work"

Digits == <<"0", "1", "2", "3", "4", "5", "6", "7", "8", "9">>

\* Display for u32
RECURSIVE FmtNat(_)
FmtNat(n) == IF n < 10 THEN Digits[n + 1] ELSE FmtNat(n \div 10) \o Digits[(n % 10) + 1]

\* Url::join of a file name: the base's last path segment is replaced.
RECURSIVE DirOf(_)
DirOf(path) ==
    IF path = "" THEN "/"
    ELSE IF SubSeq(path, Len(path), Len(path)) = "/" THEN path
    ELSE DirOf(SubSeq(path, 1, Len(path) - 1))

UrlJoin(base, name) == Url(base.scheme, base.host, DirOf(base.path) \o name)

\* Url::from_file_path of an absolute path
UrlFromFilePath(path) == Url("file", "", path)

\* The closure `generate`: the name of one image and its location.
GenerateName(images, image) ==
    IF images.variant = "Fedora"
    THEN Ok("fedora-coreos-" \o images.version \o "." \o images.date \o ".dev."
            \o FmtNat(IF IsSome(images.id) THEN Unwrap(images.id) ELSE 0)
            \o "-live-" \o image)
    ELSE IF ~IsSome(images.time)
         THEN Panic("called Option::unwrap() on a None value")
         ELSE Ok("rhcos-" \o images.version \o "." \o images.date
                 \o Unwrap(images.time) \o "-0-live-" \o image)

generate(images, image) ==
    LET name == GenerateName(images, image)
    IN  IF ~IsOk(name) THEN name
        ELSE IF IsSome(images.url)
             THEN Ok(UrlJoin(Unwrap(images.url), name.val))
             ELSE Ok(UrlFromFilePath(Cwd \o "/" \o name.val))

\* LiveImages::from(&BuildImages): Ok(the three locations), or the panic of
\* the first unwrap that fails.
LiveImagesFrom(images) ==
    LET k == generate(images, "kernel-s390x")
        i == generate(images, "initramfs.s390x.img")
        r == generate(images, "rootfs.s390x.img")
    IN  IF ~IsOk(k) THEN k
        ELSE IF ~IsOk(i) THEN i
        ELSE IF ~IsOk(r) THEN r
        ELSE Ok([live_kernel |-> k.val, live_initrd |-> i.val, live_rootfs |-> r.val])

\* The LiveImages of an ImagesConfig, as every user of it computes them.
ResolveImages(images) ==
    IF images.kind = "Build" THEN LiveImagesFrom(images.build) ELSE Ok(images.live)

\* ------------------------------------------------------------------------
\* ipl.rs: parm

\* //network
ParmNetwork(network) ==
    "rd.neednet=1 rd.znet=" \o network.znet
    \o " ip=" \o network.ip \o ":" \o network.id \o ":" \o network.gw \o ":"
    \o network.mask \o ":" \o network.hostname \o ":" \o network.nic \o ":"
    \o network.dhcp
    \o " nameserver=" \o network.nameserver \o " "

\* //installer
ParmInstaller(zvm, rootfs) ==
    "coreos.inst=yes coreos.inst.insecure=yes coreos.inst.ignition_url="
    \o UrlStr(zvm.ignition) \o " coreos.live.rootfs_url=" \o rootfs \o " "

\* match &cfg.target
ParmTarget(disk, dev) ==
    CASE disk.kind = "Dasd" ->
            "rd.dasd=" \o disk.dasd \o " coreos.inst.install_dev=" \o dev
      [] disk.kind = "Fba" ->
            "rd.dasd=" \o disk.fba \o " coreos.inst.install_dev=" \o dev
      [] disk.kind = "Scsi" ->
            "rd.zfcp=" \o disk.scsi \o " coreos.inst.install_dev=" \o dev
      [] disk.kind = "Multipath" ->
            "rd.multipath=default "
            \o Join([i \in 1..Len(disk.ids) |-> "rd.zfcp=" \o disk.ids[i]], " ")
            \o " coreos.inst.install_dev=" \o dev

ParmDfltcc(zvm) ==
    IF IsSome(zvm.dfltcc) THEN " dfltcc=" \o FmtBool(Unwrap(zvm.dfltcc)) ELSE ""

ParmCmdline(zvm) ==
    IF IsSome(zvm.cmdline) THEN " " \o Unwrap(zvm.cmdline) ELSE ""

\* parm with the installer tokens pushed before those of the network.
parm_InstallerFirst(c) ==
    LET images == ResolveImages(c.images)
        dev == install_target(c.target)
    IN  IF ~IsOk(images) THEN images
        ELSE IF ~IsOk(dev) THEN dev
        ELSE Ok(ParmInstaller(c.zvm, UrlStr(images.val.live_rootfs))
                \o ParmNetwork(c.network)
                \o ParmTarget(c.target, dev.val)
                \o ParmDfltcc(c.zvm)
                \o ParmCmdline(c.zvm))

parm(c) ==
    LET images == ResolveImages(c.images)
        dev == install_target(c.target)
    IN  IF ~IsOk(images) THEN images
        ELSE IF ~IsOk(dev) THEN dev
        ELSE Ok(ParmNetwork(c.network)
                \o ParmInstaller(c.zvm, UrlStr(images.val.live_rootfs))
                \o ParmTarget(c.target, dev.val)
                \o ParmDfltcc(c.zvm)
                \o ParmCmdline(c.zvm))

\* ------------------------------------------------------------------------
\* Paths and locations

\* Url::parse / Url::from_str of an absolute URL scheme://host/path; a text
\* without a scheme is a relative URL, which has no base here.
UrlParse(s) ==
    LET k == Find(s, "://", 1)
    IN  IF k < 2 THEN Err("relative URL without a base")
        ELSE LET rest == SubSeq(s, k + 3, Len(s))
                 j == Find(rest, "/", 1)
             IN  Ok(Url(SubSeq(s, 1, k - 1),
                        IF j = 0 THEN rest ELSE SubSeq(rest, 1, j - 1),
                        IF j = 0 THEN "/" ELSE SubSeq(rest, j, Len(rest))))

\* Path::file_name: the last component, unless the path ends in the root or
\* in "..": a trailing separator is not a component.
FileName(path) ==
    LET comps == SelectSeq(Split(path, "/"), LAMBDA c : c # "" /\ c # ".")
    IN  IF comps = <<>> \/ comps[Len(comps)] = ".." THEN None
        ELSE Some(comps[Len(comps)])

\* Url::to_file_path (Unix): only a file URL without a host has one.
ToFilePath(u) == IF u.host = "" \/ u.host = "localhost" THEN Ok(u.path) ELSE Err("()")

\* std::fs::canonicalize on a file system without links: the absolute path of
\* an existing file.
Canonicalize(s, files) ==
    LET abs == IF StartsWith(s, "/") THEN s ELSE Cwd \o "/" \o s
    IN  IF s # "" /\ abs \in files THEN Ok(abs) ELSE Err("No such file or directory")

\* ------------------------------------------------------------------------
\* cmdline.rs: parse_args.  The command line is the `install` subcommand with
\* its target options and one of the two image subcommands; the options of
\* the guest and of its network are left at their default_value.

\* chrono::Local::now() as parse_build_config formats it.
Today == "20261104"

\* get_matches without min_values(2) on multipath.
GetMatches_NoMinValues(a) ==
    LET given == {t \in {"dasd", "fba", "scsi"} : IsSome(a[t])}
                 \cup (IF a.multipath # <<>> THEN {"multipath"} ELSE {})
    IN  IF \E t \in given \ {"multipath"} : given \ {t} # {}
        THEN Err("clap: the argument cannot be used with one or more of the other specified arguments")
        ELSE Ok(a)

\* clap's own validation in get_matches: conflicts_with_all of dasd, fba and
\* scsi, min_values(2) of multipath.  clap reports the error and exits.
GetMatches(a) ==
    LET given == {t \in {"dasd", "fba", "scsi"} : IsSome(a[t])}
                 \cup (IF a.multipath # <<>> THEN {"multipath"} ELSE {})
    IN  IF \E t \in given \ {"multipath"} : given \ {t} # {}
        THEN Err("clap: the argument cannot be used with one or more of the other specified arguments")
        ELSE IF a.multipath # <<>> /\ Len(a.multipath) < 2
        THEN Err("clap: the argument requires at least 2 values")
        ELSE Ok(a)

parse_zvm_config(am) ==
    LET ignition == UrlParse("http://172.18.10.243/configs/ignition.ign")
    IN  IF ~IsOk(ignition) THEN Err("Parsing ignition URL")
        ELSE Ok([zvm |-> "t8360003",
                 ignition |-> ignition.val,
                 \* --dfltcc takes no value, so value_of("dfltcc") is None
                 dfltcc |-> None,
                 cmdline |-> Some("random.trust_cpu=on zfcp.allow_lun_scan=0 cio_ignore=all,!condev")])

parse_network_config(am) ==
    Ok([ip |-> "172.18.142.3",
        id |-> "",
        gw |-> "172.18.0.1",
        mask |-> "255.254.0.0",
        hostname |-> "coreos",
        nic |-> "encbdf0",
        dhcp |-> "off",
        nameserver |-> "172.18.0.1",
        znet |-> "qeth,0.0.bdf0,0.0.bdf1,0.0.bdf2,layer2=1,portno=0"])

parse_target_config(am) ==
    IF IsSome(am.dasd) THEN Ok([kind |-> "Dasd", dasd |-> Unwrap(am.dasd)])
    ELSE IF IsSome(am.fba) THEN Ok([kind |-> "Fba", fba |-> Unwrap(am.fba)])
    ELSE IF IsSome(am.scsi) THEN Ok([kind |-> "Scsi", scsi |-> Unwrap(am.scsi)])
    ELSE IF am.multipath # <<>> THEN Ok([kind |-> "Multipath", ids |-> am.multipath])
    ELSE Err("Installation target is missing")

\* The closure `parse` of parse_live_config: an existing file becomes a file
\* URL, anything else must be a URL.
ParseLocation(s, files) ==
    LET path == Canonicalize(s, files)
    IN  IF IsOk(path) THEN Ok(UrlFromFilePath(path.val))
        ELSE LET url == UrlParse(s)
             IN  IF IsOk(url) THEN url ELSE Err("parsing '" \o s \o "'")

parse_live_config(am, files) ==
    IF ~IsSome(am.kernel) THEN Panic("Missing kernel")
    ELSE LET k == ParseLocation(Unwrap(am.kernel), files)
         IN  IF ~IsOk(k) THEN k
    ELSE IF ~IsSome(am.initrd) THEN Panic("Missing initrd")
    ELSE LET i == ParseLocation(Unwrap(am.initrd), files)
         IN  IF ~IsOk(i) THEN i
    ELSE IF ~IsSome(am.rootfs) THEN Panic("Missing rootfs")
    ELSE LET r == ParseLocation(Unwrap(am.rootfs), files)
         IN  IF ~IsOk(r) THEN r
    ELSE Ok([kind |-> "Live",
             live |-> [live_kernel |-> k.val, live_initrd |-> i.val,
                       live_rootfs |-> r.val]])

parse_build_config(am) ==
    LET url == UrlParse(IF IsSome(am.url) THEN Unwrap(am.url) ELSE "http://172.18.10.243")
    IN  IF ~IsOk(url) THEN Err("Parsing builder url")
        ELSE Ok([kind |-> "Build",
                 build |-> [url |-> Some(url.val),
                            variant |-> IF am.variant = "fcos" THEN "Fedora" ELSE "RedHat",
                            version |-> "34",
                            date |-> IF IsSome(am.date) THEN Unwrap(am.date) ELSE Today,
                            time |-> am.time,
                            id |-> Some(0)]])

parse_args(a, files) ==
    LET am == GetMatches(a)
        images == IF a.images.sub = "set-build-images" THEN parse_build_config(a.images)
                  ELSE IF a.images.sub = "set-live-images"
                       THEN parse_live_config(a.images, files)
                       ELSE Err("Missing CoreOs images options")
        zvm == parse_zvm_config(a)
        network == parse_network_config(a)
        target == parse_target_config(a)
    IN  IF ~IsOk(am) THEN am
        ELSE IF ~IsOk(images) THEN images
        ELSE IF ~IsOk(zvm) THEN zvm
        ELSE IF ~IsOk(network) THEN network
        ELSE IF ~IsOk(target) THEN target
        ELSE Ok([zvm |-> zvm.val, network |-> network.val,
                 target |-> target.val, images |-> images.val])

\* ------------------------------------------------------------------------
\* The external effects of a run, as the trace records them

\* A command run to its end: ok is a spawn that worked and a zero status.
Cmd(argv, ok) == [op |-> "cmd", argv |-> argv, ok |-> ok]

\* cio_ignore --is-ignored: only its standard output is read.
Check(argv, out) == [op |-> "check", argv |-> argv, out |-> out]

\* One HTTP GET and how it ended.
Get(url, how) == [op |-> "get", url |-> UrlStr(url), how |-> how]

\* File::create / std::fs::write on a path
Create(path, ok) == [op |-> "create", path |-> path, ok |-> ok]
Write(path, content, ok) == [op |-> "write", path |-> path, content |-> content, ok |-> ok]

Println(text) == [op |-> "println", text |-> text]

\* The end of one call of download: its result and the file system around it.
Downloaded(role, url, before, after, res) ==
    [op |-> "download", role |-> role, url |-> url, before |-> before,
     after |-> after, res |-> res]

\* The file system f with `content` at `path`.
Put(f, path, content) ==
    [q \in DOMAIN f \cup {path} |-> IF q = path THEN content ELSE f[q]]

\* ------------------------------------------------------------------------
\* images.rs: download

\* How the network and the disk answer one download that gets that far.
NetOutcomes == {"send_err", "status_err", "create_err", "copy_err", "flush_err", "ok"}

\* download with the scheme looked at before the file: a local location is
\* never fetched, but an existing local file is not seen either.
download_SchemeFirst(url, f, net) ==
    LET name == FileName(url.path)
        path == Cwd \o "/" \o Unwrap(name)
        done(res, eff, g) == [res |-> res, eff |-> eff, fs |-> g]
    IN  IF ~IsSome(name) THEN done(Err("getting filename"), <<>>, f)
        ELSE IF url.scheme = "file" THEN done(Err("No such file"), <<>>, f)
        ELSE IF path \in DOMAIN f THEN done(Ok(<<>>), <<>>, f)
        ELSE IF net = "ok"
             THEN done(Ok(<<>>), <<Get(url, "ok"), Create(path, TRUE)>>,
                       Put(f, path, "fetched"))
        ELSE done(Err("fetching"), <<Get(url, net)>>, f)

\* download(url) on the file system f when the environment answers `net`:
\* the result, the effects in order and the file system left behind.
download(url, f, net) ==
    LET name == FileName(url.path)
        path == Cwd \o "/" \o Unwrap(name)
        done(res, eff, g) == [res |-> res, eff |-> eff, fs |-> g]
    IN  IF ~IsSome(name) THEN done(Err("getting filename"), <<>>, f)
        ELSE IF path \in DOMAIN f THEN done(Ok(<<>>), <<>>, f)
        ELSE IF url.scheme = "file" THEN done(Err("No such file"), <<>>, f)
        ELSE IF net = "send_err"
             THEN done(Err("sending request"), <<Get(url, "send_err")>>, f)
        ELSE IF net = "status_err"
             THEN done(Err("fetching"), <<Get(url, "status_err")>>, f)
        ELSE IF net = "create_err"
             THEN done(Err("File::create"), <<Get(url, "ok"), Create(path, FALSE)>>, f)
        ELSE IF net = "copy_err"
             THEN done(Err("couldn't copy"), <<Get(url, "ok"), Create(path, TRUE)>>,
                       Put(f, path, "partial"))
        ELSE IF net = "flush_err"
             THEN done(Err("couldn't write"), <<Get(url, "ok"), Create(path, TRUE)>>,
                       Put(f, path, "partial"))
        ELSE done(Ok(<<>>), <<Get(url, "ok"), Create(path, TRUE)>>,
                  Put(f, path, "fetched"))

\* download_live_images without the line of the rootfs.
DownloadOrder_NoRootfs == <<"kernel", "initrd">>

\* download_live_images: the locations in the order they are downloaded.
DownloadOrder == <<"kernel", "rootfs", "initrd">>

LocationOf(live, role) ==
    CASE role = "kernel" -> live.live_kernel
      [] role = "rootfs" -> live.live_rootfs
      [] role = "initrd" -> live.live_initrd

\* ------------------------------------------------------------------------
\* ipl.rs: the pieces of send

\* The closure url_to_path: the file to punch for a location.
url_to_path(url) ==
    IF url.scheme = "file"
    THEN LET path == ToFilePath(url)
         IN  IF IsOk(path) THEN path ELSE Err("converting '" \o UrlStr(url) \o "'")
    ELSE LET parts == Split(url.path, "/")
         IN  Ok(parts[Len(parts)])

parmfile == "cmdline"

\* punch: the vmur command line
PunchArgv(zvm, target, file) == <<"vmur", "punch", "-r", "-u", zvm, "-N", target, file>>

\* clear: its two vmcp command lines
SpoolArgv(zvm) == <<"vmcp", "sp", "pun", zvm, "rdr">>
PurgeArgv(zvm) == <<"vmcp", "pur", zvm, "rdr", "all">>

\* ipl_zvm_guest: the boot trigger
IplArgv(zvm) == <<"vmcp", "xautolog", zvm, "ipl", "000c">>

\* enable_vmur_dev: the devices, in the order of the loop
DevIds == <<"c", "d", "e">>

\* How `cio_ignore --is-ignored` can end: it cannot be started, its output is
\* not UTF-8, or the output does or does not contain "is ignored".
CheckOutcomes == {"spawn_err", "not_utf8", "ignored", "not_ignored"}

\* ------------------------------------------------------------------------
\* The run

At(a, n) == [at |-> a, n |-> n]

\* The process ends with result r.
Exit(r) == pc' = At("exit", 0) /\ ret' = r

\* runcmd! without the `?` of its caller: the failure is dropped.
RunCmd_Unchecked(argv, ok, next) ==
    /\ trace' = Append(trace, Cmd(argv, ok))
    /\ pc' = next
    /\ ret' = ret

\* One command through runcmd!: issued, and the caller goes on to `next`
\* only when it succeeded (the `?` after the macro).
RunCmd(argv, ok, next) ==
    /\ trace' = Append(trace, Cmd(argv, ok))
    /\ IF ok THEN pc' = next /\ ret' = ret
       ELSE Exit(Err("command failed: " \o argv[1]))

\* main: parse_args
Parse ==
    /\ pc = At("parse", 0)
    /\ LET r == parse_args(args, DOMAIN fs)
       IN  IF IsOk(r) THEN cfg' = r.val /\ pc' = At("display", 0) /\ ret' = ret
           ELSE cfg' = cfg /\ Exit(r)
    /\ UNCHANGED <<args, trace, fs, cmdline>>

\* main: println!("{}", c), which resolves the images of a build to show them
Display ==
    /\ pc = At("display", 0)
    /\ LET images == ResolveImages(cfg.images)
       IN  IF IsOk(images) THEN pc' = At("download", 1) /\ ret' = ret
           ELSE Exit(images)
    /\ UNCHANGED <<args, cfg, trace, fs, cmdline>>

\* download_live_images without the `?` after download: a failed download is
\* not looked at.
Download_Unchecked ==
    /\ pc.at = "download"
    /\ LET images == ResolveImages(cfg.images)
           role == DownloadOrder[pc.n]
       IN  IF ~IsOk(images)
           THEN Exit(images) /\ UNCHANGED <<trace, fs>>
           ELSE \E net \in NetOutcomes :
                  LET url == LocationOf(images.val, role)
                      d == download(url, fs, net)
                  IN  /\ trace' = trace \o d.eff
                                  \o <<Downloaded(role, url, fs, d.fs, d.res)>>
                      /\ fs' = d.fs
                      /\ ret' = ret
                      /\ pc' = IF pc.n < Len(DownloadOrder)
                               THEN At("download", pc.n + 1)
                               ELSE At("modprobe", 0)
    /\ UNCHANGED <<args, cfg, cmdline>>

\* download_images / download_live_images: one call of download
Download ==
    /\ pc.at = "download"
    /\ LET images == ResolveImages(cfg.images)
           role == DownloadOrder[pc.n]
       IN  IF ~IsOk(images)
           THEN Exit(images) /\ UNCHANGED <<trace, fs>>
           ELSE \E net \in NetOutcomes :
                  LET url == LocationOf(images.val, role)
                      d == download(url, fs, net)
                  IN  /\ trace' = trace \o d.eff
                                  \o <<Downloaded(role, url, fs, d.fs, d.res)>>
                      /\ fs' = d.fs
                      /\ IF ~IsOk(d.res) THEN Exit(d.res)
                         ELSE /\ ret' = ret
                              /\ pc' = IF pc.n < Len(DownloadOrder)
                                       THEN At("download", pc.n + 1)
                                       ELSE At("modprobe", 0)
    /\ UNCHANGED <<args, cfg, cmdline>>

\* enable_vmur_dev: modprobe vmur
Modprobe ==
    /\ pc = At("modprobe", 0)
    /\ \E ok \in BOOLEAN : RunCmd(<<"modprobe", "vmur">>, ok, At("is_ignored", 1))
    /\ UNCHANGED <<args, cfg, fs, cmdline>>

\* enable_vmur_dev with the test of the output inverted: the device is removed
\* from the ignore list when the check does not report it as ignored.
IsIgnored_Inverted ==
    /\ pc.at = "is_ignored"
    /\ \E out \in CheckOutcomes :
         /\ trace' = Append(trace, Check(<<"cio_ignore", "--is-ignored", DevIds[pc.n]>>, out))
         /\ CASE out = "spawn_err" -> Exit(Err("running 'cio_ignore --is-ignored'"))
              [] out = "not_utf8" -> Exit(Err("invalid utf-8 sequence"))
              [] out = "ignored" -> pc' = At("online", pc.n) /\ ret' = ret
              [] out = "not_ignored" -> pc' = At("remove", pc.n) /\ ret' = ret
    /\ UNCHANGED <<args, cfg, fs, cmdline>>

\* enable_vmur_dev: cio_ignore --is-ignored id
IsIgnored ==
    /\ pc.at = "is_ignored"
    /\ \E out \in CheckOutcomes :
         /\ trace' = Append(trace, Check(<<"cio_ignore", "--is-ignored", DevIds[pc.n]>>, out))
         /\ CASE out = "spawn_err" -> Exit(Err("running 'cio_ignore --is-ignored'"))
              [] out = "not_utf8" -> Exit(Err("invalid utf-8 sequence"))
              [] out = "ignored" -> pc' = At("remove", pc.n) /\ ret' = ret
              [] out = "not_ignored" -> pc' = At("online", pc.n) /\ ret' = ret
    /\ UNCHANGED <<args, cfg, fs, cmdline>>

\* enable_vmur_dev: cio_ignore --remove id
Remove ==
    /\ pc.at = "remove"
    /\ \E ok \in BOOLEAN :
         RunCmd(<<"cio_ignore", "--remove", DevIds[pc.n]>>, ok, At("online", pc.n))
    /\ UNCHANGED <<args, cfg, fs, cmdline>>

\* enable_vmur_dev: chccwdev --online id, and the next device
Online ==
    /\ pc.at = "online"
    /\ \E ok \in BOOLEAN :
         RunCmd(<<"chccwdev", "--online", DevIds[pc.n]>>, ok,
                IF pc.n < Len(DevIds) THEN At("is_ignored", pc.n + 1) ELSE At("spool", 1))
    /\ UNCHANGED <<args, cfg, fs, cmdline>>

\* clear: vmcp sp pun zvm rdr (pc.n is the call of clear: 1 or 2)
ClearSpool ==
    /\ pc.at = "spool"
    /\ \E ok \in BOOLEAN : RunCmd(SpoolArgv(cfg.zvm.zvm), ok, At("purge", pc.n))
    /\ UNCHANGED <<args, cfg, fs, cmdline>>

\* ipl_zvm_guest with a single call of clear.
ClearPurge_Once ==
    /\ pc.at = "purge"
    /\ \E ok \in BOOLEAN : RunCmd(PurgeArgv(cfg.zvm.zvm), ok, At("send", 0))
    /\ UNCHANGED <<args, cfg, fs, cmdline>>

\* clear: vmcp pur zvm rdr all
ClearPurge ==
    /\ pc.at = "purge"
    /\ \E ok \in BOOLEAN :
         RunCmd(PurgeArgv(cfg.zvm.zvm), ok,
                IF pc.n < 2 THEN At("spool", pc.n + 1) ELSE At("send", 0))
    /\ UNCHANGED <<args, cfg, fs, cmdline>>

\* send: the images of which kernel and initrd are converted to paths; the
\* conversions themselves are looked at only when each is punched
SendPaths ==
    /\ pc = At("send", 0)
    /\ LET images == ResolveImages(cfg.images)
       IN  IF IsOk(images) THEN pc' = At("parm", 0) /\ ret' = ret
           ELSE Exit(images)
    /\ UNCHANGED <<args, cfg, trace, fs, cmdline>>

\* send: let cmdline = parm(cfg)?
SendParm ==
    /\ pc = At("parm", 0)
    /\ cmdline' = parm(cfg)
    /\ IF IsOk(cmdline') THEN pc' = At("write", 0) /\ ret' = ret
       ELSE Exit(cmdline')
    /\ UNCHANGED <<args, cfg, trace, fs>>

\* send with the punch of the parameter file first and the kernel left out.
SendWrite_ParmFirst ==
    /\ pc = At("write", 0)
    /\ trace' = Append(trace, Write(parmfile, cmdline.val, TRUE))
    /\ fs' = Put(fs, Cwd \o "/" \o parmfile, cmdline.val)
    /\ pc' = At("punch_parm", 0)
    /\ UNCHANGED <<args, cfg, cmdline, ret>>

\* send: std::fs::write(parmfile, &cmdline)?, which may fail before or after
\* it has created the file
SendWrite ==
    /\ pc = At("write", 0)
    /\ \E how \in {"ok", "create_err", "write_err"} :
         /\ trace' = Append(trace, Write(parmfile, cmdline.val, how = "ok"))
         /\ fs' = CASE how = "ok" -> Put(fs, Cwd \o "/" \o parmfile, cmdline.val)
                    [] how = "write_err" -> Put(fs, Cwd \o "/" \o parmfile, "partial")
                    [] how = "create_err" -> fs
         /\ IF how = "ok" THEN pc' = At("punch_kernel", 0) /\ ret' = ret
            ELSE Exit(Err("writing to 'cmdline'"))
    /\ UNCHANGED <<args, cfg, cmdline>>

\* send: punch(zvm, "coreos.kernel", &kernel?)?
PunchKernel ==
    /\ pc = At("punch_kernel", 0)
    /\ LET kernel == url_to_path(ResolveImages(cfg.images).val.live_kernel)
       IN  IF ~IsOk(kernel) THEN Exit(kernel) /\ trace' = trace
           ELSE \E ok \in BOOLEAN :
                  RunCmd(PunchArgv(cfg.zvm.zvm, "coreos.kernel", kernel.val), ok,
                         At("punch_parm", 0))
    /\ UNCHANGED <<args, cfg, fs, cmdline>>

\* send with the parameter line itself handed to punch, not the file.
PunchParm_Line ==
    /\ pc = At("punch_parm", 0)
    /\ \E ok \in BOOLEAN :
         RunCmd(PunchArgv(cfg.zvm.zvm, "coreos.parm", cmdline.val), ok, At("punch_initrd", 0))
    /\ UNCHANGED <<args, cfg, fs, cmdline>>

\* send: punch(zvm, "coreos.parm", parmfile)?
PunchParm ==
    /\ pc = At("punch_parm", 0)
    /\ \E ok \in BOOLEAN :
         RunCmd(PunchArgv(cfg.zvm.zvm, "coreos.parm", parmfile), ok, At("punch_initrd", 0))
    /\ UNCHANGED <<args, cfg, fs, cmdline>>

\* send: punch(zvm, "coreos.initrd", &initrd?)
PunchInitrd ==
    /\ pc = At("punch_initrd", 0)
    /\ LET initrd == url_to_path(ResolveImages(cfg.images).val.live_initrd)
       IN  IF ~IsOk(initrd) THEN Exit(initrd) /\ trace' = trace
           ELSE \E ok \in BOOLEAN :
                  RunCmd(PunchArgv(cfg.zvm.zvm, "coreos.initrd", initrd.val), ok,
                         At("ipl", 0))
    /\ UNCHANGED <<args, cfg, fs, cmdline>>

\* ipl_zvm_guest with the IPL run like every other command (runcmd!(..)?).
Ipl_Fatal ==
    /\ pc = At("ipl", 0)
    /\ \E ok \in BOOLEAN :
         /\ trace' = Append(trace, Cmd(IplArgv(cfg.zvm.zvm), ok))
         /\ Exit(IF ok THEN Ok(<<>>) ELSE Err("command failed: vmcp"))
    /\ UNCHANGED <<args, cfg, fs, cmdline>>

\* ipl_zvm_guest: the IPL of the guest; a failure is only reported
Ipl ==
    /\ pc = At("ipl", 0)
    /\ \E ok \in BOOLEAN :
         trace' = Append(trace, Cmd(IplArgv(cfg.zvm.zvm), ok))
                  \o (IF ok THEN <<>>
                      ELSE <<Println("Starting installation failed"),
                             Println("Please login to zVM and IPL and manually: '#cp ipl c'")>>)
    /\ Exit(Ok(<<>>))
    /\ UNCHANGED <<args, cfg, fs, cmdline>>

\* ------------------------------------------------------------------------
\* The command lines and file systems of the model

\* The i-th value given to --mp
MpId(i) == "0.0.fc0" \o FmtNat(i)

NoTarget == [dasd |-> None, fba |-> None, scsi |-> None, multipath |-> <<>>]

TargetArgs ==
    {NoTarget,
     [NoTarget EXCEPT !.dasd = Some("0.0.1234")],
     [NoTarget EXCEPT !.dasd = Some("1234")],
     [NoTarget EXCEPT !.fba = Some("0.0.5678")],
     [NoTarget EXCEPT !.scsi = Some("0.0.fa00")],
     [NoTarget EXCEPT !.dasd = Some("0.0.1234"), !.fba = Some("0.0.5678")],
     [NoTarget EXCEPT !.scsi = Some("0.0.fa00"), !.multipath = <<MpId(1), MpId(2)>>]}
    \cup {[NoTarget EXCEPT !.multipath = [i \in 1..n |-> MpId(i)]] : n \in 1..MaxIds}

BuildArgs ==
    [sub : {"set-build-images"}, url : {None}, variant : {"fcos", "rhcos"},
     date : {None, Some("84.")}, time : {None, Some("202106281019")}]

LiveArgs ==
    [sub : {"set-live-images"},
     kernel : {None, Some("http://172.18.10.243/vmlinuz"), Some("vmlinuz"),
               Some("/srv/vmlinuz"), Some("http://172.18.10.243/"), Some("file:///")},
     initrd : {None, Some("http://172.18.10.243/initrd.img"), Some("file:///work/initrd.img"),
               Some("file://server/initrd.img")},
     rootfs : {Some("http://172.18.10.243/rootfs.img"), Some("rootfs.img")}]

ImagesArgs == BuildArgs \cup LiveArgs \cup {[sub |-> "none"]}

\* The image files that may lie on the disk when the run starts.
ImageFiles == {"/work/vmlinuz", "/srv/vmlinuz", "/work/initrd.img", "/work/rootfs.img"}

Merge(t, i) ==
    [dasd |-> t.dasd, fba |-> t.fba, scsi |-> t.scsi, multipath |-> t.multipath,
     images |-> i]

Init ==
    /\ args \in {Merge(t, i) : t \in TargetArgs, i \in ImagesArgs}
    /\ fs \in {[q \in S |-> "orig"] : S \in SUBSET ImageFiles}
    /\ cfg = NoConfig
    /\ pc = At("parse", 0)
    /\ trace = <<>>
    /\ cmdline = NoValue
    /\ ret = NoValue

Next ==
    \/ Parse
    \/ Display
    \/ Download
    \/ Modprobe
    \/ IsIgnored
    \/ Remove
    \/ Online
    \/ ClearSpool
    \/ ClearPurge
    \/ SendPaths
    \/ SendParm
    \/ SendWrite
    \/ PunchKernel
    \/ PunchParm
    \/ PunchInitrd
    \/ Ipl

Spec == Init /\ [][Next]_vars

\* ------------------------------------------------------------------------
\* send and install_target on their own, for every Config of the bounded sets

DefaultNetwork == parse_network_config(NoTarget).val

NetworkConfigs ==
    {DefaultNetwork,
     [ip |-> "10.0.0.5", id |-> "", gw |-> "10.0.0.1", mask |-> "255.255.0.0",
      hostname |-> "host1", nic |-> "enc1", dhcp |-> "off", nameserver |-> "10.0.0.1",
      znet |-> "qeth,0.0.bdf0,0.0.bdf1,0.0.bdf2"]}

ZvmConfigs ==
    [zvm : {"t8360003"},
     ignition : {Url("http", "172.18.10.243", "/configs/ignition.ign")},
     dfltcc : {None, Some(TRUE), Some(FALSE)},
     cmdline : {None, Some("random.trust_cpu=on zfcp.allow_lun_scan=0")}]

DiskIds == {"0.0.1234", "0.0.abcd", "0.0.", "1234", "0.1.0200", ""}

\* Every sequence of at most n ids of --mp.
RECURSIVE SeqsUpTo(_, _)
SeqsUpTo(S, n) ==
    IF n = 0 THEN {<<>>}
    ELSE SeqsUpTo(S, n - 1)
         \cup {Append(q, x) : q \in {r \in SeqsUpTo(S, n - 1) : Len(r) = n - 1}, x \in S}

DiskConfigs ==
    {[kind |-> "Dasd", dasd |-> id] : id \in DiskIds}
    \cup {[kind |-> "Fba", fba |-> id] : id \in DiskIds}
    \cup {[kind |-> "Scsi", scsi |-> id] : id \in DiskIds}
    \cup {[kind |-> "Multipath", ids |-> q] : q \in SeqsUpTo({MpId(1), MpId(2), MpId(3)}, MaxIds)}

BuildConfigs ==
    [url : {None, Some(Url("http", "172.18.10.243", "/builds/latest/"))},
     variant : {"Fedora", "RedHat"},
     version : {"413"},
     date : {"92."},
     time : {None, Some("202303141019")},
     id : {Some(0)}]

LiveConfigs ==
    {[live_kernel |-> Url("http", "172.18.10.243", "/vmlinuz"),
      live_initrd |-> Url("http", "172.18.10.243", "/initrd.img"),
      live_rootfs |-> Url("http", "172.18.10.243", "/rootfs.img")],
     [live_kernel |-> Url("file", "", "/work/vmlinuz"),
      live_initrd |-> Url("file", "", "/work/initrd.img"),
      live_rootfs |-> Url("file", "", "/work/rootfs.img")]}

ImagesConfigs ==
    {[kind |-> "Build", build |-> b] : b \in BuildConfigs}
    \cup {[kind |-> "Live", live |-> l] : l \in LiveConfigs}

Configs == [zvm : ZvmConfigs, network : NetworkConfigs, target : DiskConfigs,
            images : ImagesConfigs]

\* send(cfg) is entered with any Config; it has returned Ok(()) when the
\* position is that of the IPL.
InitSend ==
    /\ cfg \in Configs
    /\ args = NoValue
    /\ fs = <<>>
    /\ pc = At("send", 0)
    /\ trace = <<>>
    /\ cmdline = NoValue
    /\ ret = NoValue

NextSend ==
    \/ SendPaths
    \/ SendParm
    \/ SendWrite
    \/ PunchKernel
    \/ PunchParm
    \/ PunchInitrd

SpecSend == InitSend /\ [][NextSend]_vars

\* install_target is applied to any DiskConfig.
CallInstallTarget ==
    /\ pc = At("install_target", 0)
    /\ ret' = install_target(cfg.target)
    /\ pc' = At("returned", 0)
    /\ UNCHANGED <<args, cfg, trace, fs, cmdline>>

InitTarget ==
    /\ cfg \in [target : DiskConfigs]
    /\ args = NoValue
    /\ fs = <<>>
    /\ pc = At("install_target", 0)
    /\ trace = <<>>
    /\ cmdline = NoValue
    /\ ret = NoValue

NextTarget == CallInstallTarget

SpecTarget == InitTarget /\ [][NextTarget]_vars

\* ------------------------------------------------------------------------
\* Reading the trace

\* The positions of the trace, and those of the commands of ipl_zvm_guest.
Pos == 1..Len(trace)
IsCommand(e) == e.op \in {"cmd", "check"}
Commands == {i \in Pos : IsCommand(trace[i])}

IsSpool(e) == e.op = "cmd" /\ e.argv[1] = "vmcp" /\ e.argv[2] = "sp"
IsPurge(e) == e.op = "cmd" /\ e.argv[1] = "vmcp" /\ e.argv[2] = "pur"
IsClear(e) == IsSpool(e) \/ IsPurge(e)
IsPunch(e) == e.op = "cmd" /\ e.argv[1] = "vmur"
IsPunchOf(e, target) == IsPunch(e) /\ e.argv[7] = target
IsIpl(e) == e.op = "cmd" /\ e.argv[1] = "vmcp" /\ e.argv[2] = "xautolog"
IsOnline(e, id) == e.op = "cmd" /\ e.argv[1] = "chccwdev" /\ e.argv[3] = id

\* A command the code takes as failed: runcmd! sees a spawn error or a
\* non-zero status, the ignore-list check a spawn error or unreadable output.
Failed(e) ==
    \/ e.op = "cmd" /\ ~e.ok
    \/ e.op = "check" /\ e.out \in {"spawn_err", "not_utf8"}

\* The step of the orchestrator a command belongs to: 1 DeviceSetup,
\* 2 ReaderClear, 3 Punch(coreos.kernel), 4 Punch(coreos.parm),
\* 5 Punch(coreos.initrd), 6 Boot.
StepOf(e) ==
    CASE IsClear(e) -> 2
      [] IsPunchOf(e, "coreos.kernel") -> 3
      [] IsPunchOf(e, "coreos.parm") -> 4
      [] IsPunchOf(e, "coreos.initrd") -> 5
      [] IsIpl(e) -> 6
      [] OTHER -> 1

\* The step the run is in, from its position; 7 is Done.
StepOfPc(p) ==
    CASE p.at \in {"parse", "display", "download"} -> 0
      [] p.at \in {"modprobe", "is_ignored", "remove", "online"} -> 1
      [] p.at \in {"spool", "purge"} -> 2
      [] p.at \in {"send", "parm", "write", "punch_kernel"} -> 3
      [] p.at = "punch_parm" -> 4
      [] p.at = "punch_initrd" -> 5
      [] p.at = "ipl" -> 6
      [] p.at = "exit" -> 7

Done == pc.at = "exit" /\ IsOk(ret)

\* Step k has completed successfully in the trace.
Completed(k) ==
    CASE k = 1 -> \A d \in 1..Len(DevIds) :
                     \E i \in Pos : IsOnline(trace[i], DevIds[d]) /\ trace[i].ok
      [] k = 2 -> \E i, j \in Pos :
                     /\ i < j
                     /\ IsSpool(trace[i]) /\ trace[i].ok
                     /\ IsPurge(trace[j]) /\ trace[j].ok
                     /\ \A m \in Pos : IsClear(trace[m]) => m <= j
      [] k \in 3..6 -> \E i \in Pos : StepOf(trace[i]) = k /\ IsCommand(trace[i])
                                      /\ (k < 6 => trace[i].ok)

\* C1: the commands of a run are issued in the order DeviceSetup, ReaderClear,
\* Punch(coreos.kernel), Punch(coreos.parm), Punch(coreos.initrd), Boot, Done:
\* a command of a step is issued only after every earlier command succeeded
\* and every earlier step completed, each punch and the boot are issued at
\* most once, Done follows the boot, and no step of the run leads back to an
\* earlier step.
C1_StepOrder ==
    /\ [](/\ \A i, j \in Commands :
                i < j => /\ StepOf(trace[i]) <= StepOf(trace[j])
                         /\ ~Failed(trace[i])
                         /\ StepOf(trace[i]) >= 3 => StepOf(trace[i]) < StepOf(trace[j])
          /\ \A j \in Commands :
                \A k \in 1..(StepOf(trace[j]) - 1) : Completed(k)
          /\ Done => \A k \in 1..6 : Completed(k))
    /\ [][StepOfPc(pc) <= StepOfPc(pc')]_vars

\* C1 witness: a run that is Done after all six steps, the boot included.
C1_Witness ==
    /\ Done
    /\ \E i \in Pos : IsIpl(trace[i]) /\ trace[i].ok
    /\ \E i, j, k \in Pos :
          /\ i < j /\ j < k
          /\ IsPunchOf(trace[i], "coreos.kernel")
          /\ IsPunchOf(trace[j], "coreos.parm")
          /\ IsPunchOf(trace[k], "coreos.initrd")

\* C2: a failed command of DeviceSetup, ReaderClear or a punch ends the run at
\* once with an error: it is the last effect of the run (nothing is issued
\* after it, it is not issued again) and the run has ended without success.
C2_FailureAborts ==
    \A i \in Commands :
        (Failed(trace[i]) /\ ~IsIpl(trace[i])) =>
            /\ i = Len(trace)
            /\ pc.at = "exit"
            /\ IsErr(ret)

\* C2 witness: the punch of coreos.parm has failed, after that of the kernel.
C2_Witness ==
    /\ \E i \in Pos : IsPunchOf(trace[i], "coreos.parm") /\ ~trace[i].ok
    /\ \E i \in Pos : IsPunchOf(trace[i], "coreos.kernel") /\ trace[i].ok

ClearsBefore(j) == SelectSeq(SubSeq(trace, 1, j - 1), IsClear)

\* C4 as stated: when an artifact is punched, the reader has been cleared by
\* two commands, one spool-to-reader and one purge-all, both successful.
C4_Original ==
    \A j \in Pos :
        IsPunch(trace[j]) =>
            /\ Len(ClearsBefore(j)) = 2
            /\ \E a, b \in 1..2 : IsSpool(ClearsBefore(j)[a]) /\ IsPurge(ClearsBefore(j)[b])
            /\ \A a \in 1..2 : ClearsBefore(j)[a].ok

\* C4 as amended: when an artifact is punched, clear has run twice, each time
\* the spool-to-reader command and then the purge-all, and all four commands
\* succeeded; no clear command follows a punch.
C4_DoubleClear ==
    /\ \A j \in Pos :
          IsPunch(trace[j]) =>
              LET c == ClearsBefore(j)
              IN  /\ Len(c) = 4
                  /\ IsSpool(c[1]) /\ IsPurge(c[2]) /\ IsSpool(c[3]) /\ IsPurge(c[4])
                  /\ \A a \in 1..4 : c[a].ok
    /\ \A i, j \in Pos : (IsPunch(trace[i]) /\ IsClear(trace[j])) => j < i

\* C4 witness: an artifact has been punched.
C4_Witness == \E j \in Pos : IsPunchOf(trace[j], "coreos.kernel")

\* The calls of download in the trace, oldest first.
IsDownload(e) == e.op = "download"
Downloads == SelectSeq(trace, IsDownload)

\* C5 as stated: the fetcher is called for the kernel and the initrd only.
C5_Original == \A i \in Pos : IsDownload(trace[i]) => trace[i].role \in {"kernel", "initrd"}

\* C5 as amended: the fetcher is called for the kernel, the rootfs and the
\* initrd location, in this order and each at most once; a rootfs that cannot
\* be ensured ends the run with that error; and the rootfs location is also
\* the value of coreos.live.rootfs_url in the parameter line.
C5_FetchesRootfsToo ==
    /\ Len(Downloads) <= 3
    /\ \A k \in 1..Len(Downloads) :
          /\ Downloads[k].role = <<"kernel", "rootfs", "initrd">>[k]
          /\ Downloads[k].url = LocationOf(ResolveImages(cfg.images).val, Downloads[k].role)
    /\ \A i \in Pos :
          (IsDownload(trace[i]) /\ trace[i].role = "rootfs" /\ ~IsOk(trace[i].res)) =>
              i = Len(trace) /\ pc.at = "exit" /\ ret = trace[i].res /\ IsErr(ret)
    /\ IsOk(cmdline) =>
          Find(cmdline.val,
               " coreos.live.rootfs_url="
               \o UrlStr(ResolveImages(cfg.images).val.live_rootfs) \o " ", 1) > 0

\* C5 witness: the kernel was ensured and the rootfs could not be.
C5_Witness ==
    /\ Len(Downloads) = 2
    /\ IsOk(Downloads[1].res)
    /\ Downloads[2].role = "rootfs" /\ IsErr(Downloads[2].res)
    /\ pc.at = "exit"

\* The HTTP requests made by the call of download that ends at position i.
RECURSIVE GetsOf(_)
GetsOf(i) ==
    IF i = 1 \/ IsDownload(trace[i - 1]) \/ ~(trace[i - 1].op \in {"get", "create"}) THEN 0
    ELSE (IF trace[i - 1].op = "get" THEN 1 ELSE 0) + GetsOf(i - 1)

\* The file of the working directory named like the location exists.
Present(url, f) ==
    /\ IsSome(FileName(url.path))
    /\ (Cwd \o "/" \o Unwrap(FileName(url.path))) \in DOMAIN f

\* What C6 says of one call of download.
FetcherContract(e, gets) ==
    /\ Present(e.url, e.before) => IsOk(e.res) /\ gets = 0 /\ e.after = e.before
    /\ (~Present(e.url, e.before) /\ e.url.scheme = "file") =>
          e.res = Err("No such file") /\ gets = 0
    /\ (~Present(e.url, e.before) /\ e.url.scheme # "file") => gets = 1
    /\ gets <= 1

MultipathTooFew == args.multipath # <<>> /\ Len(args.multipath) < 2
RedHatWithoutTime ==
    /\ args.images.sub = "set-build-images"
    /\ args.images.variant = "rhcos"
    /\ ~IsSome(args.images.time)
InvalidTargetSelection ==
    Cardinality({t \in {"dasd", "fba", "scsi"} : IsSome(args[t])}
                \cup (IF args.multipath # <<>> THEN {"multipath"} ELSE {})) # 1
ConfigError == MultipathTooFew \/ RedHatWithoutTime \/ InvalidTargetSelection

\* C7: a run whose configuration has a multipath target with fewer than 2
\* ids, a RedHat build without a time or an invalid target selection fails
\* before any effect: no request, no file created or written, no command.
C7_ConfigErrorsBeforeIO ==
    ConfigError =>
        /\ trace = <<>>
        /\ \A q \in DOMAIN fs : fs[q] = "orig"
        /\ pc.at \in {"parse", "display", "exit"}
        /\ pc.at = "exit" => ~IsOk(ret)

\* C7 witness: a run with a single --mp value, and one of a RedHat build
\* without a time, have ended.
C7_Witness ==
    /\ pc.at = "exit"
    /\ \/ MultipathTooFew /\ IsErr(ret)
       \/ RedHatWithoutTime /\ ~InvalidTargetSelection /\ IsPanic(ret)

\* The tokens C8 expects of the parameter line for a configuration, in order,
\* up to the install device.
NetworkTokens(network) ==
    <<"rd.neednet=1",
      "rd.znet=" \o network.znet,
      "ip=" \o Join(<<network.ip, network.id, network.gw, network.mask,
                     network.hostname, network.nic, network.dhcp>>, ":"),
      "nameserver=" \o network.nameserver>>

InstallerTokens(zvm, rootfs) ==
    <<"coreos.inst=yes",
      "coreos.inst.insecure=yes",
      "coreos.inst.ignition_url=" \o UrlStr(zvm.ignition),
      "coreos.live.rootfs_url=" \o UrlStr(rootfs)>>

EnableTokens(disk) ==
    CASE disk.kind = "Dasd" -> <<"rd.dasd=" \o disk.dasd>>
      [] disk.kind = "Fba" -> <<"rd.dasd=" \o disk.fba>>
      [] disk.kind = "Scsi" -> <<"rd.zfcp=" \o disk.scsi>>
      [] disk.kind = "Multipath" ->
            <<"rd.multipath=default">> \o [i \in 1..Len(disk.ids) |-> "rd.zfcp=" \o disk.ids[i]]

DfltccTokens(zvm) ==
    IF zvm.dfltcc = None THEN <<>>
    ELSE IF zvm.dfltcc = Some(TRUE) THEN <<"dfltcc=true">>
    ELSE <<"dfltcc=false">>

\* C8: for a configuration that parm accepts, the line is, separated by single
\* spaces: the networking tokens, the installer tokens, the device-enable
\* tokens of the target and its coreos.inst.install_dev token, a dfltcc token
\* exactly when the flag is set, and last the extra arguments as given.
C8_TokenOrder ==
    IsOk(cmdline) =>
        LET toks == Split(cmdline.val, " ")
            head == NetworkTokens(cfg.network)
                    \o InstallerTokens(cfg.zvm, ResolveImages(cfg.images).val.live_rootfs)
                    \o EnableTokens(cfg.target)
            dev == toks[Len(head) + 1]
        IN  /\ Len(toks) > Len(head)
            /\ StartsWith(dev, "coreos.inst.install_dev=")
            /\ cmdline.val = Join(head \o <<dev>> \o DfltccTokens(cfg.zvm), " ")
                             \o (IF IsSome(cfg.zvm.cmdline)
                                 THEN " " \o Unwrap(cfg.zvm.cmdline) ELSE "")
            /\ cfg.zvm.dfltcc = None =>
                  \A i \in 1..Len(toks) : ~StartsWith(toks[i], "dfltcc=")

\* C8 witness: a line was synthesized for a multipath target with the flag
\* set to false and with extra arguments.
C8_Witness ==
    /\ IsOk(cmdline)
    /\ cfg.target.kind = "Multipath"
    /\ cfg.zvm.dfltcc = Some(FALSE)
    /\ IsSome(cfg.zvm.cmdline)

\* The tokens of the line that begin with rd.zfcp=, and where the last one is.
IsZfcp(t) == StartsWith(t, "rd.zfcp=")
LastZfcp(toks) == CHOOSE i \in 1..Len(toks) :
                      IsZfcp(toks[i]) /\ \A j \in (i + 1)..Len(toks) : ~IsZfcp(toks[j])

\* C9: send with a multipath target of fewer than 2 ids fails in parm: no
\* line, no file, no punch; with n >= 2 ids the line has exactly n rd.zfcp=
\* clauses, those of the ids in their order, followed at once by
\* coreos.inst.install_dev=/dev/mapper/mpatha.
C9_Multipath ==
    cfg.target.kind = "Multipath" =>
        /\ Len(cfg.target.ids) < 2 =>
              /\ ~IsOk(cmdline)
              /\ trace = <<>>
              /\ pc.at \in {"send", "parm", "exit"}
              /\ pc.at = "exit" => ~IsOk(ret)
              /\ (pc.at = "exit" /\ IsOk(ResolveImages(cfg.images))) => IsErr(cmdline)
        /\ (Len(cfg.target.ids) >= 2 /\ cmdline # NoValue) =>
              /\ IsOk(cmdline)
              /\ LET toks == Split(cmdline.val, " ")
                 IN  /\ SelectSeq(toks, IsZfcp)
                          = [i \in 1..Len(cfg.target.ids) |-> "rd.zfcp=" \o cfg.target.ids[i]]
                     /\ LastZfcp(toks) < Len(toks)
                     /\ toks[LastZfcp(toks) + 1]
                          = "coreos.inst.install_dev=/dev/mapper/mpatha"

\* C9 witness: send has failed for a single id, and (in another run) the
\* line was written for three ids.
C9_Witness ==
    /\ cfg.target.kind = "Multipath"
    /\ \/ Len(cfg.target.ids) = 1 /\ IsErr(cmdline) /\ pc.at = "exit"
       \/ Len(cfg.target.ids) = 3 /\ IsOk(cmdline) /\ pc.at = "punch_kernel"

\* C10 as stated: install_target fails only for a multipath target with fewer
\* than 2 ids; Dasd and Fba yield the CCW path of the id, Scsi one constant.
C10_Original ==
    pc.at = "returned" =>
        CASE cfg.target.kind = "Dasd" ->
                ret = Ok("/dev/disk/by-path/ccw-" \o cfg.target.dasd)
          [] cfg.target.kind = "Fba" ->
                ret = Ok("/dev/disk/by-path/ccw-" \o cfg.target.fba)
          [] cfg.target.kind = "Scsi" -> ret = Ok("sda")
          [] cfg.target.kind = "Multipath" -> (IsErr(ret) <=> Len(cfg.target.ids) < 2)

\* C10 as amended: install_target fails for a multipath target with fewer than
\* 2 ids and for a Dasd target whose id does not begin with "0.0.", and for
\* nothing else; Dasd (with that prefix) and Fba yield the CCW path of the
\* id, Scsi the constant sda, Multipath /dev/mapper/mpatha.
C10_InstallTarget ==
    pc.at = "returned" =>
        CASE cfg.target.kind = "Dasd" ->
                IF StartsWith(cfg.target.dasd, "0.0.")
                THEN ret = Ok("/dev/disk/by-path/ccw-" \o cfg.target.dasd)
                ELSE IsErr(ret)
          [] cfg.target.kind = "Fba" ->
                ret = Ok("/dev/disk/by-path/ccw-" \o cfg.target.fba)
          [] cfg.target.kind = "Scsi" -> ret = Ok("sda")
          [] cfg.target.kind = "Multipath" ->
                IF Len(cfg.target.ids) < 2 THEN IsErr(ret)
                ELSE ret = Ok("/dev/mapper/mpatha")

\* C10 witness: install_target has returned for a Dasd id without the prefix.
C10_Witness ==
    /\ pc.at = "returned"
    /\ cfg.target.kind = "Dasd"
    /\ cfg.target.dasd = "1234"
    /\ IsErr(ret)

\* The file name a RedHat build gives the image of a role.
RedHatName(b, image) ==
    "rhcos-" \o b.version \o "." \o b.date \o Unwrap(b.time) \o "-0-live-" \o image

\* C11 as stated: send entered with a RedHat build without a time returns an
\* error result (Err) from the resolution of its images, and nothing else was
\* done; with a time the resolution succeeds and the three locations are named
\* rhcos-<version>.<date><time>-0-live-<role>.
C11_Original ==
    (cfg.images.kind = "Build" /\ cfg.images.build.variant = "RedHat") =>
        LET b == cfg.images.build
            r == ResolveImages(cfg.images)
        IN  IF ~IsSome(b.time)
            THEN /\ pc.at \in {"send", "exit"}
                 /\ pc.at = "exit" => IsErr(ret) /\ trace = <<>>
            ELSE /\ IsOk(r)
                 /\ FileName(r.val.live_kernel.path) = Some(RedHatName(b, "kernel-s390x"))
                 /\ FileName(r.val.live_initrd.path) = Some(RedHatName(b, "initramfs.s390x.img"))
                 /\ FileName(r.val.live_rootfs.path) = Some(RedHatName(b, "rootfs.s390x.img"))

\* The commands of DeviceSetup, and the positions of the trace they are at.
IsModprobe(e) == e.op = "cmd" /\ e.argv[1] = "modprobe"
IsCheckOf(e, id) == e.op = "check" /\ e.argv = <<"cio_ignore", "--is-ignored", id>>
IsRemoveOf(e, id) == e.op = "cmd" /\ e.argv = <<"cio_ignore", "--remove", id>>
IsOnlineOf(e, id) == e.op = "cmd" /\ e.argv = <<"chccwdev", "--online", id>>
IsSetup(e) == IsCommand(e) /\ e.argv[1] \in {"modprobe", "cio_ignore", "chccwdev"}
SetupCmds == SelectSeq(trace, IsSetup)

\* C12: the first command of DeviceSetup loads vmur (modprobe vmur, once);
\* then, for the devices c, d, e in this order, the ignore-list check, the
\* removal from the ignore list exactly when the check reported "is ignored",
\* and the online command; a clear command is issued only after the online
\* commands of all three devices succeeded; and a failure in DeviceSetup (a
\* command that cannot be run or ends with a non-zero status, a check that
\* cannot be run or whose output cannot be read) ends the run with an error
\* at once, before any clear command.
C12_DeviceSetup ==
    LET s == SetupCmds
        n == Len(s)
    IN  /\ n > 0 => s[1] = Cmd(<<"modprobe", "vmur">>, s[1].ok)
        /\ \A k \in 2..n :
              /\ ~IsModprobe(s[k])
              /\ ~Failed(s[k - 1])
              /\ \E d \in 1..Len(DevIds) :
                    LET id == DevIds[d]
                    IN  \/ /\ IsCheckOf(s[k], id)
                           /\ IF d = 1 THEN IsModprobe(s[k - 1])
                              ELSE IsOnlineOf(s[k - 1], DevIds[d - 1])
                        \/ /\ IsRemoveOf(s[k], id)
                           /\ IsCheckOf(s[k - 1], id) /\ s[k - 1].out = "ignored"
                        \/ /\ IsOnlineOf(s[k], id)
                           /\ \/ IsRemoveOf(s[k - 1], id)
                              \/ IsCheckOf(s[k - 1], id) /\ s[k - 1].out = "not_ignored"
        /\ \A j \in Pos :
              IsClear(trace[j]) =>
                  /\ \A i \in Pos : IsSetup(trace[i]) => i < j /\ ~Failed(trace[i])
                  /\ \A d \in 1..Len(DevIds) :
                        /\ Cardinality({k \in 1..n : IsCheckOf(s[k], DevIds[d])}) = 1
                        /\ Cardinality({k \in 1..n : IsOnlineOf(s[k], DevIds[d])}) = 1
                        /\ Cardinality({k \in 1..n : IsRemoveOf(s[k], DevIds[d])})
                              = (IF \E k \in 1..n : IsCheckOf(s[k], DevIds[d])
                                                    /\ s[k].out = "ignored"
                                 THEN 1 ELSE 0)
                  /\ IsOnlineOf(s[n], DevIds[Len(DevIds)]) /\ s[n].ok
        /\ \A i \in Pos :
              (IsSetup(trace[i]) /\ Failed(trace[i])) =>
                  /\ i = Len(trace)
                  /\ pc.at = "exit" /\ IsErr(ret)
                  /\ \A j \in Pos : ~IsClear(trace[j])
        /\ pc.at \in {"is_ignored", "remove", "online"} => n > 0 /\ ~Failed(s[n])
        /\ pc.at = "remove" => IsCheckOf(s[n], DevIds[pc.n]) /\ s[n].out = "ignored"
        /\ pc.at = "online" => ~(IsCheckOf(s[n], DevIds[pc.n]) /\ s[n].out = "ignored")

\* C12 witness: device c was ignored and removed from the list, device d was
\* not ignored, and the reader is being cleared.
C12_Witness ==
    /\ \E i \in Pos : IsRemoveOf(trace[i], "c") /\ trace[i].ok
    /\ \E i \in Pos : IsCheckOf(trace[i], "d") /\ trace[i].out = "not_ignored"
    /\ \A i \in Pos : ~IsRemoveOf(trace[i], "d")
    /\ \E j \in Pos : IsClear(trace[j])

\* The writes of the parameter file in the trace.
IsWrite(e) == e.op = "write"

\* C13: coreos.parm is punched from the file cmdline, which was written
\* before, once and successfully, with the line parm gives for the
\* configuration of the run, and which still holds this line; when parm
\* fails, or the write of the file, the run ends with that error and neither
\* a punch nor the boot trigger is issued.
C13_ParmFromFile ==
    /\ \A i \in Pos :
          IsPunchOf(trace[i], "coreos.parm") =>
              /\ trace[i].argv[8] = "cmdline"
              /\ IsOk(parm(cfg))
              /\ \E j \in 1..(i - 1) :
                    /\ trace[j] = Write("cmdline", parm(cfg).val, TRUE)
                    /\ \A k \in Pos : IsWrite(trace[k]) => k = j
              /\ (Cwd \o "/cmdline") \in DOMAIN fs
              /\ fs[Cwd \o "/cmdline"] = parm(cfg).val
    /\ (IsErr(cmdline) \/ \E j \in Pos : IsWrite(trace[j]) /\ ~trace[j].ok) =>
          /\ pc.at = "exit" /\ IsErr(ret)
          /\ \A i \in Pos : ~IsPunch(trace[i]) /\ ~IsIpl(trace[i])
          /\ IsErr(cmdline) => ret = cmdline /\ \A j \in Pos : ~IsWrite(trace[j])

\* C13 witness: coreos.parm has been punched, for a multipath target.
C13_Witness ==
    /\ \E i \in Pos : IsPunchOf(trace[i], "coreos.parm") /\ trace[i].ok
    /\ cfg.target.kind = "Multipath"

\* The file a punch command names, as the process resolves it: a relative
\* path is taken from the working directory.
PunchedFile(e) ==
    IF StartsWith(e.argv[8], "/") THEN e.argv[8] ELSE Cwd \o "/" \o e.argv[8]

\* The punch at position i of the trace sends the file that an earlier,
\* successful call of download for the location of `role` found or created in
\* the working directory.
PunchesEnsured(i, role) ==
    \E j \in 1..(i - 1) :
        /\ IsDownload(trace[j]) /\ trace[j].role = role /\ IsOk(trace[j].res)
        /\ Present(trace[j].url, trace[j].after)
        /\ PunchedFile(trace[i]) = Cwd \o "/" \o Unwrap(FileName(trace[j].url.path))

\* C14 as stated: the file punched as coreos.kernel (coreos.initrd) is the file
\* of the working directory that download ensured for the kernel (initrd)
\* location earlier in the run.
C14_Original ==
    \A i \in Pos :
        /\ IsPunchOf(trace[i], "coreos.kernel") => PunchesEnsured(i, "kernel")
        /\ IsPunchOf(trace[i], "coreos.initrd") => PunchesEnsured(i, "initrd")

\* The location of `role` in the images of the run cannot be converted into
\* the path of a file to punch.
CannotConvert(role) ==
    /\ cfg # NoConfig
    /\ IsOk(ResolveImages(cfg.images))
    /\ ~IsOk(url_to_path(LocationOf(ResolveImages(cfg.images).val, role)))

\* C15 as stated: in a run whose kernel or initrd location cannot be converted
\* into a local path, no artifact is ever punched, and a run that reaches send
\* ends with the error of the conversion.
C15_Original ==
    (CannotConvert("kernel") \/ CannotConvert("initrd")) =>
        /\ \A i \in Pos : ~IsPunch(trace[i])
        /\ pc.at \notin {"punch_parm", "punch_initrd", "ipl"}

\* The effects of the fetch phase: the calls of download and their requests
\* and files.
IsFetch(e) == e.op \in {"download", "get", "create"}

\* C16: a failed download (a missing local file, a request that fails or is
\* answered with an error status, a file that cannot be written) ends the run
\* with its error and no command of DeviceSetup, ReaderClear, punch or boot is
\* issued in the run; a command is issued only after the downloads of the
\* kernel, the rootfs and the initrd have all succeeded, and nothing is
\* fetched after the first command.
C16_FetchBeforeTransfer ==
    /\ \A i \in Pos :
          (IsDownload(trace[i]) /\ ~IsOk(trace[i].res)) =>
              /\ i = Len(trace)
              /\ pc.at = "exit" /\ ret = trace[i].res /\ IsErr(ret)
              /\ Commands = {}
    /\ \A j \in Commands :
          /\ Len(Downloads) = 3
          /\ \A k \in 1..3 : IsOk(Downloads[k].res)
          /\ {Downloads[k].role : k \in 1..3} = {"kernel", "rootfs", "initrd"}
          /\ \A i \in Pos : IsFetch(trace[i]) => i < j
    /\ StepOfPc(pc) \in 1..6 => Len(Downloads) = 3 /\ \A k \in 1..3 : IsOk(Downloads[k].res)

\* C16 witness: the kernel and the rootfs were fetched and the server answered
\* the request of the initrd with an error status; the run has ended.
C16_Witness ==
    /\ Len(Downloads) = 3
    /\ IsOk(Downloads[1].res) /\ IsOk(Downloads[2].res)
    /\ Downloads[3].res = Err("fetching")
    /\ \E i \in Pos : trace[i].op = "get" /\ trace[i].how = "status_err"
    /\ pc.at = "exit"

====
